---------------------------- MODULE Spec2Model ----------------------------
(***************************************************************************)
(* A model of torchhydro's dataset layer:                                  *)
(*   - BaseDataset._create_lookup_table, __len__ and __getitem__ of the    *)
(*     dataset classes                   (datasets/data_sets.py)           *)
(*   - KuaiSampler.__init__ and an epoch of its draws                      *)
(*                                       (datasets/data_sets.py)           *)
(*   - ScalerHub / DapengScaler persistence of the statistics record       *)
(*                                       (datasets/data_scalers.py)        *)
(*   - DapengScaler.load_data / inverse_transform                          *)
(*                                       (datasets/data_scalers.py)        *)
(*   - _fill_gaps_da with fill_nan = "mean"                                *)
(*                                       (datasets/data_sets.py)           *)
(* Each component has its own specification (SpecLookup, SpecSampler,      *)
(* SpecEpoch, SpecPersist, SpecNorm, SpecFill); Spec is their disjoint     *)
(* union.                                                                  *)
(***************************************************************************)
EXTENDS Integers, Sequences, FiniteSets, TLC

VARIABLES
    \* ---- BaseDataset (lookup table) ----
    sites_id,        \* self.t_s_dict["sites_id"]: the units, in their given order
    time_length,     \* len(self.y["time"])
    rho,             \* self.rho = data_params["forecast_history"]
    warmup_length,   \* self.warmup_length
    lookup_table,    \* self.lookup_table: dict id -> (basin, date)
    num_samples,     \* self.num_samples
    pcL,             \* "new" before _create_lookup_table, "built" after,
                     \* "got" after a __getitem__
    ds_class,        \* the class of the dataset object
    train_mode,      \* self.train_mode = (loader_type == "train")
    has_c,           \* self.c is not None and self.c.shape[-1] > 0
    item_arg,        \* the argument of the latest __getitem__
    item_out,        \* what it returned, or the exception it raised
    \* ---- KuaiSampler.__init__ ----
    batch_size_arg,  \* the argument batch_size, as passed
    batch_size,      \* the local batch_size, reassigned by the loop
    s_rho,           \* argument rho
    s_ngrid,         \* argument ngrid
    s_nt,            \* argument nt
    s_warmup,        \* argument warmup_length
    n_iter_ep,       \* how the n_iter_ep expression evaluated
    pcS,             \* "idle" | "loop" | "done" | the exception raised
    data_source_len, \* len(data_source)
    s_num_samples,   \* num_samples = n_iter_ep * batch_size (0: not computed)
    replacement,     \* RandomSampler.replacement
    drawn,           \* the indices the sampler has yielded in this epoch
    perm_rest,       \* what is left of the permutation being yielded
    \* ---- the run directory data_params["test_path"] and its users ----
    run_dir,         \* file name -> "absent" or what the file holds
    io_hist,         \* file name -> the writes, copies and reads of it so far
    fits,            \* the cal_stat_all / fit_transform calls made so far
    n_built,         \* number of dataset constructions made so far
    last_build,      \* the latest construction: its arguments and how it ended
    \* ---- DapengScaler: normalization of the target ----
    target_cols,     \* data_params["target_cols"]
    relevant_cols,   \* data_params["relevant_cols"]
    constant_cols,   \* data_params["constant_cols"]
    prcp_norm_cols,  \* self.prcp_norm_cols
    gamma_norm_cols, \* self.gamma_norm_cols
    pbm_norm,        \* self.pbm_norm
    y_origin,        \* the target as read from the data source: var -> basin -> value
    mean_prep,       \* data_source.read_mean_prcp(sites): basin -> reference
    stat_dict,       \* self.stat_dict: var -> the statistic stored under it
    x_origin,        \* the forcing as read: var -> basin -> value
    c_origin,        \* the attributes as read: var -> basin -> value
    x_norm,          \* what get_data_ts returned
    y_norm,          \* what get_data_obs returned
    c_norm,          \* what get_data_const returned
    pred,            \* what inverse_transform returned
    pcN,             \* "idle" | "constructed" | "normalized" | "inverted"
    \* ---- _fill_gaps_da ----
    da_in,           \* the array as passed: variable -> basin -> position -> cell
    da,              \* the array, which _fill_gaps_da updates in place
    pcF              \* "idle" | "call" | "filled"

lookupVars  == <<sites_id, time_length, rho, warmup_length, lookup_table,
                 num_samples, pcL, ds_class, train_mode, has_c, item_arg,
                 item_out>>
samplerVars == <<batch_size_arg, batch_size, s_rho, s_ngrid, s_nt, s_warmup,
                 n_iter_ep, pcS, data_source_len, s_num_samples, replacement,
                 drawn, perm_rest>>
persistVars == <<run_dir, io_hist, fits, n_built, last_build>>
normVars    == <<target_cols, relevant_cols, constant_cols, prcp_norm_cols,
                 gamma_norm_cols, pbm_norm, y_origin, mean_prep, stat_dict,
                 y_norm, pred, pcN, x_origin, c_origin, x_norm, c_norm>>
fillVars    == <<da_in, da, pcF>>
vars        == <<lookupVars, samplerVars, persistVars, normVars, fillVars>>

Max(a, b) == IF a >= b THEN a ELSE b

(***************************************************************************)
(* Bounds of the model.                                                    *)
(***************************************************************************)
MaxGrid   == 2      \* at most this many units in sites_id / ngrid
MaxNt     == 4      \* at most this many timestamps
MaxRho    == 5      \* window lengths 1..MaxRho (beyond MaxNt: empty tables)
MaxWarmup == 4      \* warmup lengths 0..MaxWarmup
MaxBatch  == 101    \* starting batch sizes 1..MaxBatch (needs three shrinks)
EpochDay  == 7      \* day number of the first timestamp of the time axis
MaxRaw    == 2      \* raw target values 0..MaxRaw (and the missing marker)
MaxRef    == 2      \* per-unit reference precipitation 1..MaxRef+1
MaxBuilds == 2      \* at most this many dataset constructions on a run directory
MaxLen    == 3      \* at most this many samples in a sampler's data_source
MaxDraws  == 3      \* an epoch's draws are followed up to this many
MaxEpochBatch == 2  \* starting batch sizes of the samplers whose epoch is drawn
MaxFillBase == 1    \* the values of an array to fill start at 0..MaxFillBase

BasinIds == {"b1", "b2", "b3"}
\* the dataset classes of data_sets.py
DatasetClasses == {"BaseDataset", "BasinSingleFlowDataset", "DplDataset"}

\* Sequences over S without repetition, of length n.
RECURSIVE DistinctSeqs(_, _)
DistinctSeqs(S, n) ==
    IF n = 0 THEN {<<>>}
    ELSE UNION { {Append(s, x) : x \in S \ {s[i] : i \in DOMAIN s}}
                 : s \in DistinctSeqs(S, n - 1) }

(***************************************************************************)
(* BaseDataset._create_lookup_table, data_sets.py 224-243                  *)
(***************************************************************************)
\* dates = self.y["time"].to_numpy(): a contiguous daily axis; dates[f].
dates(f) == EpochDay + f

\* range(a, b) as a sequence.
RECURSIVE Range(_, _)
Range(a, b) == IF a >= b THEN <<>> ELSE <<a>> \o Range(a + 1, b)

ValidStartsNoUpperBound(w, nt, r) == Range(w, nt)
ValidStartsFromZero(w, nt, r) ==
    LET keep(f) == f < nt - r + 1 IN SelectSeq(Range(0, nt), keep)

\* (f for f in range(warmup_length, time_length) if f < time_length - rho + 1)
ValidStarts(w, nt, r) ==
    LET keep(f) == f < nt - r + 1 IN SelectSeq(Range(w, nt), keep)

\* [(basin, dates[f]) for f in ...] for one basin
BasinEntries(basin, w, nt, r) ==
    LET fs == ValidStarts(w, nt, r)
    IN  [k \in 1..Len(fs) |-> <<basin, dates(fs[k])>>]

LookupListTimeMajor(basins, w, nt, r) ==
    LET fs == ValidStarts(w, nt, r)
        row(f) == [k \in 1..Len(basins) |-> <<basins[k], dates(f)>>]
        RECURSIVE rows(_)
        rows(k) == IF k > Len(fs) THEN <<>> ELSE row(fs[k]) \o rows(k + 1)
    IN  rows(1)

\* lookup = []; for basin in basins: lookup.extend(...)
RECURSIVE LookupList(_, _, _, _)
LookupList(basins, w, nt, r) ==
    IF basins = <<>> THEN <<>>
    ELSE BasinEntries(Head(basins), w, nt, r)
             \o LookupList(Tail(basins), w, nt, r)

\* dict(enumerate(lookup)): keys 0 .. len(lookup)-1
Enumerate(lookup) == [i \in 0..(Len(lookup) - 1) |-> lookup[i + 1]]

LookupIdle ==
    /\ sites_id = <<>>
    /\ time_length = 0
    /\ rho = 1
    /\ warmup_length = 0
    /\ lookup_table = <<>>
    /\ num_samples = 0
    /\ pcL = "idle"
    /\ ds_class = "none"
    /\ train_mode = FALSE
    /\ has_c = FALSE
    /\ item_arg = -1
    /\ item_out = [res |-> "unset", x |-> <<>>, y |-> <<>>]

\* The dataset after _load_data has set its fields and before line 197.
InitLookupVars ==
    /\ sites_id \in UNION {DistinctSeqs(BasinIds, n) : n \in 1..MaxGrid}
    /\ time_length \in 0..MaxNt
    /\ rho \in 1..MaxRho
    /\ warmup_length \in 0..MaxWarmup
    /\ lookup_table = <<>>
    /\ num_samples = 0
    /\ pcL = "new"
    /\ ds_class \in DatasetClasses
    /\ train_mode \in BOOLEAN
    /\ has_c \in BOOLEAN
    /\ item_arg = -1
    /\ item_out = [res |-> "unset", x |-> <<>>, y |-> <<>>]

CreateLookupTable ==
    /\ pcL = "new"
    /\ LET lookup == LookupList(sites_id, warmup_length, time_length, rho)
       IN  /\ lookup_table' = Enumerate(lookup)
           /\ num_samples' = Len(lookup)
    /\ pcL' = "built"
    /\ UNCHANGED <<sites_id, time_length, rho, warmup_length, ds_class,
                   train_mode, has_c, item_arg, item_out>>
    /\ UNCHANGED <<samplerVars, persistVars, normVars, fillVars>>

(***************************************************************************)
(* __len__ and __getitem__ of BaseDataset (data_sets.py 91-135),           *)
(* BasinSingleFlowDataset (254-260) and DplDataset (337-438).  A cell of   *)
(* an array is named by the array, the unit and the date; a row holds the  *)
(* cells of one timestamp.  DplDataset is modelled with target_as_input    *)
(* and constant_only both false.                                           *)
(***************************************************************************)
\* BaseDataset.__len__, which DplDataset.__len__ repeats
BaseLen == IF train_mode THEN num_samples ELSE Len(sites_id)
\* BasinSingleFlowDataset.__len__
BasinSingleFlowLen == num_samples
\* len(dataset), by class
DatasetLen ==
    IF ds_class = "BasinSingleFlowDataset" THEN BasinSingleFlowLen
    ELSE BaseLen

\* the time coordinate of self.x, self.y, self.x_origin, self.y_origin
TimeAxis == [k \in 1..time_length |-> dates(k - 1)]

SelTimeHalfOpen(lo, hi) ==
    LET keep(d) == lo <= d /\ d < hi IN SelectSeq(TimeAxis, keep)

\* .sel(time=slice(lo, hi)): by label, both ends included
SelTime(lo, hi) ==
    LET keep(d) == lo <= d /\ d <= hi IN SelectSeq(TimeAxis, keep)

\* arr.sel(basin=basin, time=...).to_numpy().T: one row per timestamp
Series(arr, basin, ds) == [k \in 1..Len(ds) |-> << <<arr, basin, ds[k]>> >>]

\* self.c.sel(basin=basin).values laid on n rows (np.tile / np.repeat)
AttrRows(basin, n) == [k \in 1..n |-> << <<"c", basin>> >>]

\* an exception leaving __getitem__
Raised(e) == [res |-> e, x |-> <<>>, y |-> <<>>]
Returned(x, y) == [res |-> "ok", x |-> x, y |-> y]

\* np.concatenate((x, c), axis=1) and then the rest of the call
ConcatColumns(x, c, y) ==
    IF Len(x) # Len(c) THEN Raised("ValueError")
    ELSE Returned([k \in 1..Len(x) |-> x[k] \o c[k]], y)

\* BaseDataset.__getitem__, lines 94-135
BaseGetItem(item) ==
    IF ~train_mode THEN
        IF item + 1 \notin DOMAIN sites_id THEN Raised("IndexError")
        ELSE LET basin == sites_id[item + 1]
                 x == Series("x", basin, TimeAxis)
                 y == Series("y", basin, TimeAxis)
             IN  IF ~has_c THEN Returned(x, y)
                 ELSE ConcatColumns(x, AttrRows(basin, Len(x)), y)
    ELSE IF item \notin DOMAIN lookup_table THEN Raised("KeyError")
    ELSE LET basin == lookup_table[item][1]
             time == lookup_table[item][2]
             x == Series("x", basin,
                         SelTime(time - warmup_length, time + rho - 1))
             y == Series("y", basin, SelTime(time, time + rho - 1))
         IN  IF ~has_c THEN Returned(x, y)
             ELSE ConcatColumns(x, AttrRows(basin, warmup_length + rho), y)

\* BasinSingleFlowDataset.__getitem__, lines 254-257: y = ys[-1, :]
BasinSingleFlowGetItem(item) ==
    LET r == BaseGetItem(item)
    IN  IF r.res # "ok" THEN r
        ELSE IF r.y = <<>> THEN Raised("IndexError")
        ELSE Returned(r.x, r.y[Len(r.y)])

\* DplDataset.__getitem__, lines 354-435: ((x_train, z_train), y_train)
DplGetItem(item) ==
    IF train_mode THEN
        LET r == BaseGetItem(item)
        IN  IF r.res # "ok" THEN r
            ELSE LET basin == lookup_table[item][1]
                     time == lookup_table[item][2]
                     x_train ==
                         Series("x_origin", basin,
                                SelTime(time - warmup_length, time + rho - 1))
                     y_train ==
                         Series("y_origin", basin,
                                SelTime(time, time + rho - 1))
                 IN  Returned(<<x_train, r.x>>, y_train)
    ELSE IF item + 1 \notin DOMAIN sites_id THEN Raised("IndexError")
    ELSE LET basin == sites_id[item + 1]
             x_norm_rows == Series("x", basin, TimeAxis)
             x_train == Series("x_origin", basin, TimeAxis)
             y_all == Series("y_origin", basin, TimeAxis)
             \* .isel(time=slice(warmup_length, None))
             y_train == SubSeq(y_all, warmup_length + 1, Len(y_all))
         IN  \* without attributes xc_norm is already a tensor and
             \* torch.from_numpy(xc_norm) rejects it
             IF ~has_c THEN Raised("TypeError")
             ELSE LET xc == ConcatColumns(x_norm_rows,
                                          AttrRows(basin, Len(x_norm_rows)),
                                          y_train)
                  IN  IF xc.res # "ok" THEN xc
                      ELSE Returned(<<x_train, xc.x>>, y_train)

\* dataset[item], by class
DatasetGetItem(item) ==
    CASE ds_class = "BasinSingleFlowDataset" -> BasinSingleFlowGetItem(item)
      [] ds_class = "DplDataset" -> DplGetItem(item)
      [] OTHER -> BaseGetItem(item)

\* one dataset[item] with an index a sampler or loader draws from
\* range(len(dataset))
GetItem ==
    /\ pcL = "built"
    /\ \E item \in 0..(DatasetLen - 1) :
           /\ item_arg' = item
           /\ item_out' = DatasetGetItem(item)
    /\ pcL' = "got"
    /\ UNCHANGED <<sites_id, time_length, rho, warmup_length, lookup_table,
                   num_samples, ds_class, train_mode, has_c>>
    /\ UNCHANGED <<samplerVars, persistVars, normVars, fillVars>>

(***************************************************************************)
(* KuaiSampler.__init__, data_sets.py 292-307                              *)
(***************************************************************************)
ShrinkKeepPositive(b) == Max(b \div 10, 1)

\* batch_size = int(batch_size / 10)  (b >= 0: truncation is floor)
Shrink(b) == b \div 10

LoopCondStrict(b, r, ngrid, nt) == b * r > ngrid * nt

\* while batch_size * rho >= ngrid * nt
LoopCond(b, r, ngrid, nt) == b * r >= ngrid * nt

\* How lines 297-303 end for integer arguments. With N = b*rho and
\* D = ngrid*(nt - w):  1 - N/D is positive iff the logarithm is finite and
\* negative-valued iff 0 < N/D < 1, and only then is
\* ceil(log(0.01)/log(1 - N/D)) >= 1.
\*   D = 0       : ZeroDivisionError
\*   N/D > 1     : log of a negative number is nan, int(nan) is a ValueError
\*   N/D = 1     : log(0) = -inf, the quotient is 0.0, n_iter_ep = 0, assert
\*   N/D <= 0    : log >= 0, the quotient is <= 0 or -inf: assert / Overflow
NIterOutcome(b, r, ngrid, nt, w) ==
    LET N == b * r
        D == ngrid * (nt - w)
    IN  IF D = 0 THEN "ZeroDivisionError"
        ELSE IF D > 0 /\ N > D THEN "ValueError"
        ELSE IF D > 0 /\ N = D THEN "AssertionError"
        ELSE IF D > 0 /\ N > 0 THEN "ok"
        ELSE IF N = 0 THEN "OverflowError"
        ELSE "AssertionError"

\* Natural numbers of any size, as their base-10000 digits, lowest first.
\* BigTimes[x, k, carry] is x * k + carry.
BigTimes[x \in Seq(Nat), k \in Nat, carry \in Nat] ==
    IF x = <<>>
    THEN IF carry = 0 THEN <<>>
         ELSE <<carry % 10000>> \o BigTimes[<<>>, k, carry \div 10000]
    ELSE LET t == Head(x) * k + carry
         IN  <<t % 10000>> \o BigTimes[Tail(x), k, t \div 10000]

\* x <= y for two numbers of i digits
BigLeqFrom[x \in Seq(Nat), y \in Seq(Nat), i \in Nat] ==
    IF i = 0 THEN TRUE
    ELSE IF x[i] # y[i] THEN x[i] < y[i]
    ELSE BigLeqFrom[x, y, i - 1]

BigLeq[x \in Seq(Nat), y \in Seq(Nat)] ==
    IF Len(x) # Len(y) THEN Len(x) < Len(y) ELSE BigLeqFrom[x, y, Len(x)]

\* The least n >= 1 with 100 * c^n <= a^n, given p = 100 * c^n and q = a^n.
LeastPower[p \in Seq(Nat), q \in Seq(Nat), c \in Nat, a \in Nat, n \in Nat] ==
    IF BigLeq[p, q] THEN n
    ELSE LeastPower[BigTimes[p, c, 0], BigTimes[q, a, 0], c, a, n + 1]

\* int(np.ceil(np.log(0.01) / np.log(1 - N/D))) for 0 < N < D, lines 297-302:
\* the least n with (1 - N/D)^n <= 0.01, that is 100 * (D-N)^n <= D^n.
NIterEp(b, r, ngrid, nt, w) ==
    LET N == b * r
        D == ngrid * (nt - w)
    IN  LeastPower[BigTimes[<<D - N>>, 100, 0], <<D>>, D - N, D, 1]

\* super().__init__(data_source, num_samples=num_samples), line 307, passes
\* no replacement argument: RandomSampler's default applies.
RandomSamplerReplacement == FALSE

SamplerIdle ==
    /\ batch_size_arg = 0
    /\ batch_size = 0
    /\ s_rho = 0
    /\ s_ngrid = 0
    /\ s_nt = 0
    /\ s_warmup = 0
    /\ n_iter_ep = "unset"
    /\ pcS = "idle"
    /\ data_source_len = 0
    /\ s_num_samples = 0
    /\ replacement = FALSE
    /\ drawn = <<>>
    /\ perm_rest = {}

\* The call KuaiSampler(data_source, batch_size, warmup_length, rho, ngrid, nt)
InitSamplerVars ==
    /\ batch_size_arg \in 1..MaxBatch
    /\ batch_size = batch_size_arg
    /\ s_rho \in 1..MaxRho
    /\ s_ngrid \in 1..MaxGrid
    /\ s_nt \in 1..MaxNt
    /\ s_warmup \in 0..MaxWarmup
    /\ n_iter_ep = "unset"
    /\ pcS = "loop"
    /\ data_source_len \in 1..MaxLen
    /\ s_num_samples = 0
    /\ replacement = FALSE
    /\ drawn = <<>>
    /\ perm_rest = {}

\* one iteration of the while loop, lines 292-294
SamplerShrink ==
    /\ pcS = "loop"
    /\ LoopCond(batch_size, s_rho, s_ngrid, s_nt)
    /\ batch_size' = Shrink(batch_size)
    /\ UNCHANGED <<batch_size_arg, s_rho, s_ngrid, s_nt, s_warmup, n_iter_ep,
                   pcS, data_source_len, s_num_samples, replacement, drawn,
                   perm_rest>>
    /\ UNCHANGED <<lookupVars, persistVars, normVars, fillVars>>

\* loop exit and the rest of __init__, lines 295-307
SamplerFinish ==
    /\ pcS = "loop"
    /\ ~LoopCond(batch_size, s_rho, s_ngrid, s_nt)
    /\ LET b == Max(batch_size, 1)
           out == NIterOutcome(b, s_rho, s_ngrid, s_nt, s_warmup)
       IN  /\ batch_size' = b
           /\ n_iter_ep' = out
           /\ pcS' = IF out = "ok" THEN "done" ELSE out
           /\ s_num_samples' =
                  IF out = "ok"
                  THEN NIterEp(b, s_rho, s_ngrid, s_nt, s_warmup) * b
                  ELSE 0
           /\ replacement' = RandomSamplerReplacement
    /\ UNCHANGED <<batch_size_arg, s_rho, s_ngrid, s_nt, s_warmup,
                   data_source_len, drawn, perm_rest>>
    /\ UNCHANGED <<lookupVars, persistVars, normVars, fillVars>>

\* The indices the next draw of RandomSampler.__iter__ can yield: any index
\* with replacement; without, one the permutation being yielded has not
\* given yet, a fresh torch.randperm(n) starting when one is used up.
DrawPool ==
    IF replacement \/ perm_rest = {} THEN 0..(data_source_len - 1)
    ELSE perm_rest

\* one index yielded by iter(sampler), inherited from RandomSampler
SamplerDraw(i) ==
    /\ pcS = "done"
    /\ Len(drawn) < s_num_samples
    /\ Len(drawn) < MaxDraws
    /\ i \in DrawPool
    /\ drawn' = Append(drawn, i)
    /\ perm_rest' = IF replacement THEN {} ELSE DrawPool \ {i}
    /\ UNCHANGED <<batch_size_arg, batch_size, s_rho, s_ngrid, s_nt, s_warmup,
                   n_iter_ep, pcS, data_source_len, s_num_samples,
                   replacement>>
    /\ UNCHANGED <<lookupVars, persistVars, normVars, fillVars>>

(***************************************************************************)
(* The statistics record and the fitted scalers in the run directory:      *)
(* BaseDataset.__init__ / _load_data (data_sets.py 81-197),                *)
(* DplDataset.__init__ (data_sets.py 324-335),                             *)
(* ScalerHub.__init__ (data_scalers.py 72-155),                            *)
(* DapengScaler.__init__ (data_scalers.py 224-238)                         *)
(***************************************************************************)
\* os.path.join(data_params["test_path"], "dapengscaler_stat.json")
stat_file == "dapengscaler_stat.json"
\* norm_keys, in the order of the loop of ScalerHub.__init__
norm_keys == <<"target_vars", "relevant_vars", "constant_vars">>
\* os.path.join(data_params["test_path"], f"{norm_keys[i]}_scaler.pkl")
save_file(i) == norm_keys[i] \o "_scaler.pkl"
RunDirFiles == {stat_file} \cup {save_file(i) : i \in 1..Len(norm_keys)}

LoaderTypes == {"train", "valid", "test"}
\* the loader_type values a caller may pass ("predict": not a loader mode)
LoaderArgs  == LoaderTypes \cup {"predict"}
SCALER_DICT == {"StandardScaler", "RobustScaler", "MinMaxScaler", "MaxAbsScaler"}
\* the data_params["scaler"] values a caller may pass ("NoScaler": unknown)
ScalerArgs  == {"DapengScaler", "StandardScaler", "NoScaler"}
\* data_params["stat_dict_file"]: None, a readable file, a path with no file
StatDictFileArgs == {"None", "ext_file", "ext_missing"}

FitWheneverNoFileGiven(loader_type, stat_dict_file) == stat_dict_file = "None"

\* loader_type == "train" and data_params["stat_dict_file"] is None
\* (data_scalers.py 107, 130, 227)
FitHere(loader_type, stat_dict_file) ==
    loader_type = "train" /\ stat_dict_file = "None"

Event(op, loader_type) == <<op, loader_type>>
Logged(w, file, op, loader_type) ==
    [w EXCEPT !.io_hist[file] = Append(@, Event(op, loader_type))]

\* fit (cal_stat_all / fit_transform) on the data being loaded, then dump
\* the result into the run directory
FitAndDump(w, file, how, loader_type, stat_dict_file) ==
    LET w1 == [w EXCEPT !.fits = @ \cup {<<how, loader_type, stat_dict_file>>},
                        !.run_dir[file] = "train_stats"]
    IN  [w |-> Logged(w1, file, "dump", loader_type), res |-> "ok",
         stat_from |-> "computed"]

\* the else branch: copy the supplied file in (if any), require the file,
\* load it.  missing is the exception raised when the file is not there.
CopyAndLoad(w, file, loader_type, stat_dict_file, missing) ==
    IF stat_dict_file = "ext_missing"
    THEN \* shutil.copy of a path with no file
         [w |-> w, res |-> "FileNotFoundError", stat_from |-> "unset"]
    ELSE LET w1 == IF stat_dict_file = "None" THEN w
                   ELSE Logged([w EXCEPT !.run_dir[file] = "ext_file"],
                               file, "copy", loader_type)
         IN  IF w1.run_dir[file] = "absent"
             THEN [w |-> w1, res |-> missing, stat_from |-> "unset"]
             ELSE [w |-> Logged(w1, file, "load", loader_type), res |-> "ok",
                   stat_from |-> "loaded"]

\* DapengScaler.__init__, data_scalers.py 224-238
DapengScalerInit(w, loader_type, stat_dict_file) ==
    IF FitHere(loader_type, stat_dict_file)
    THEN FitAndDump(w, stat_file, "cal_stat_all", loader_type, stat_dict_file)
    ELSE CopyAndLoad(w, stat_file, loader_type, stat_dict_file,
                     "AssertionError")

\* one pass of the loop of ScalerHub.__init__, data_scalers.py 97-144:
\* target and forcing are 3-d (FileNotFoundError, line 116), the attributes
\* 2-d (assert, line 138)
GenericScalerGroup(w, i, loader_type, stat_dict_file) ==
    IF FitHere(loader_type, stat_dict_file)
    THEN FitAndDump(w, save_file(i), "fit_transform", loader_type,
                    stat_dict_file)
    ELSE CopyAndLoad(w, save_file(i), loader_type, stat_dict_file,
                     IF i < 3 THEN "FileNotFoundError" ELSE "AssertionError")

\* the loop over the three groups from group i on; self.target_scaler is the
\* scaler of group 1 (i == 0 in the source)
RECURSIVE GenericScalerLoop(_, _, _, _, _)
GenericScalerLoop(w, i, loader_type, stat_dict_file, first_from) ==
    IF i > Len(norm_keys)
    THEN [w |-> w, res |-> "ok", stat_from |-> first_from]
    ELSE LET r == GenericScalerGroup(w, i, loader_type, stat_dict_file)
         IN  IF r.res # "ok" THEN r
             ELSE GenericScalerLoop(r.w, i + 1, loader_type, stat_dict_file,
                                    IF i = 1 THEN r.stat_from ELSE first_from)

\* ScalerHub.__init__, data_scalers.py 75-151
ScalerHubInit(w, scaler_type, loader_type, stat_dict_file) ==
    IF scaler_type = "DapengScaler"
    THEN DapengScalerInit(w, loader_type, stat_dict_file)
    ELSE IF scaler_type \in SCALER_DICT
    THEN GenericScalerLoop(w, 1, loader_type, stat_dict_file, "unset")
    ELSE [w |-> w, res |-> "NotImplementedError", stat_from |-> "unset"]

BaseDatasetInitLateCheck(w, scaler_type, loader_type, stat_dict_file) ==
    LET r == ScalerHubInit(w, scaler_type, loader_type, stat_dict_file)
    IN  IF loader_type \notin LoaderTypes
        THEN [w |-> r.w, res |-> "ValueError", stat_from |-> "unset"]
        ELSE r

\* BaseDataset.__init__ with _load_data, data_sets.py 81-89 and 137-197
BaseDatasetInit(w, scaler_type, loader_type, stat_dict_file) ==
    IF loader_type \notin LoaderTypes
    THEN [w |-> w, res |-> "ValueError", stat_from |-> "unset"]
    ELSE ScalerHubInit(w, scaler_type, loader_type, stat_dict_file)

\* DplDataset.__init__, data_sets.py 324-335: in valid/test mode with
\* target_as_input a train-mode DplDataset is built from the same arguments
DplDatasetInit(w, scaler_type, loader_type, stat_dict_file, target_as_input) ==
    LET r == BaseDatasetInit(w, scaler_type, loader_type, stat_dict_file)
    IN  IF r.res = "ok" /\ target_as_input /\ loader_type # "train"
        THEN LET t == BaseDatasetInit(r.w, scaler_type, "train",
                                      stat_dict_file)
             IN  [w |-> t.w, res |-> t.res, stat_from |-> r.stat_from]
        ELSE r

DatasetInit(w, cls, scaler_type, loader_type, stat_dict_file, target_as_input) ==
    IF cls = "DplDataset"
    THEN DplDatasetInit(w, scaler_type, loader_type, stat_dict_file,
                        target_as_input)
    ELSE BaseDatasetInit(w, scaler_type, loader_type, stat_dict_file)

NoBuild == [cls |-> "none", loader_type |-> "none", scaler |-> "none",
            stat_dict_file |-> "None", target_as_input |-> FALSE,
            res |-> "none", stat_from |-> "unset", existed |-> FALSE]

\* a fresh run directory
PersistIdle ==
    /\ run_dir = [f \in RunDirFiles |-> "absent"]
    /\ io_hist = [f \in RunDirFiles |-> <<>>]
    /\ fits = {}
    /\ n_built = 0
    /\ last_build = NoBuild

\* the file the construction's target scaler is persisted in
TargetFile(scaler_type) ==
    IF scaler_type = "DapengScaler" THEN stat_file ELSE save_file(1)

\* One dataset construction, from the call to its return or exception.
Construct(cls, scaler_type, loader_type, stat_dict_file, target_as_input) ==
    /\ n_built < MaxBuilds
    /\ LET w == [run_dir |-> run_dir, io_hist |-> io_hist, fits |-> fits]
           r == DatasetInit(w, cls, scaler_type, loader_type, stat_dict_file,
                            target_as_input)
       IN  /\ run_dir' = r.w.run_dir
           /\ io_hist' = r.w.io_hist
           /\ fits' = r.w.fits
           /\ last_build' =
                  [cls |-> cls, loader_type |-> loader_type,
                   scaler |-> scaler_type, stat_dict_file |-> stat_dict_file,
                   target_as_input |-> target_as_input, res |-> r.res,
                   stat_from |-> r.stat_from,
                   existed |-> run_dir[TargetFile(scaler_type)] # "absent"]
    /\ n_built' = n_built + 1
    /\ UNCHANGED <<lookupVars, samplerVars, normVars, fillVars>>

ConstructAny ==
    \E cls \in DatasetClasses, scaler_type \in ScalerArgs,
       loader_type \in LoaderArgs, stat_dict_file \in StatDictFileArgs,
       target_as_input \in BOOLEAN :
        /\ (cls # "DplDataset" => ~target_as_input)
        /\ Construct(cls, scaler_type, loader_type, stat_dict_file,
                     target_as_input)

(***************************************************************************)
(* Normalization of the target: DapengScaler.cal_stat_all, get_data_obs,   *)
(* inverse_transform (data_scalers.py 219-223, 240-371).                   *)
(*                                                                         *)
(* A value is a raw number (or the missing marker NaN) with the chain of   *)
(* real-valued maps applied to it so far; applying a map right after its   *)
(* own inverse cancels, any other composition is kept as written, so two   *)
(* values are equal only when the code has computed the same quantity.     *)
(* Every map sends NaN to NaN.                                             *)
(***************************************************************************)
\* np.nan, the missing-value marker (no raw value is negative)
NaN == -1
Raw(n) == [base |-> n, ops |-> <<>>]
Missing == Raw(NaN)

Inverse(op) ==
    CASE op[1] = "div"       -> <<"mul", op[2]>>
      [] op[1] = "mul"       -> <<"div", op[2]>>
      [] op[1] = "log_sqrt"  -> <<"exp_sq">>
      [] op[1] = "exp_sq"    -> <<"log_sqrt">>
      [] op[1] = "zscore"    -> <<"unzscore", op[2]>>
      [] op[1] = "unzscore"  -> <<"zscore", op[2]>>
      [] op[1] = "per_area"  -> <<"times_area", op[2]>>
      [] op[1] = "times_area" -> <<"per_area", op[2]>>

Apply(op, v) ==
    IF v.base = NaN THEN Missing
    ELSE IF Len(v.ops) > 0 /\ v.ops[Len(v.ops)] = Inverse(op)
    THEN [v EXCEPT !.ops = SubSeq(@, 1, Len(@) - 1)]
    ELSE [v EXCEPT !.ops = Append(@, op)]

InSeq(x, seq) == \E i \in 1..Len(seq) : seq[i] = x
SeqSet(seq) == {seq[i] : i \in 1..Len(seq)}

NormBasins == {"b1", "b2"}

\* unify_streamflow_unit(ds, area, inverse): flow per unit area (mm/day),
\* and back
unify_streamflow_unit(x, inverse) ==
    [var \in DOMAIN x |->
        [b \in NormBasins |->
            Apply(<<IF inverse THEN "times_area" ELSE "per_area", b>>,
                  x[var][b])]]

\* _prcp_norm(x, mean_prep, to_norm): x / mean_prep or x * mean_prep, the
\* reference of each unit broadcast over time
PrcpNorm(x, ref, to_norm) ==
    [b \in NormBasins |->
        Apply(<<IF to_norm THEN "div" ELSE "mul", ref[b]>>, x[b])]

\* _trans_norm(x, var_lst, stat_dict, log_norm_cols, to_norm): out starts
\* all-NaN; each variable of var_lst is z-scored with stat_dict[var], after
\* log(sqrt(x) + 0.1) if it is in log_norm_cols (and the reverse for
\* to_norm = False)
TransNorm(x, var_lst, stats, log_cols, to_norm) ==
    [var \in DOMAIN x |->
        IF ~InSeq(var, var_lst) THEN [b \in NormBasins |-> Missing]
        ELSE [b \in NormBasins |->
                 IF to_norm
                 THEN Apply(<<"zscore", stats[var]>>,
                            IF InSeq(var, log_cols)
                            THEN Apply(<<"log_sqrt">>, x[var][b])
                            ELSE x[var][b])
                 ELSE LET d == Apply(<<"unzscore", stats[var]>>, x[var][b])
                      IN  IF InSeq(var, log_cols)
                          THEN Apply(<<"exp_sq">>, d)
                          ELSE d]]

LogNormColsGammaOnly == gamma_norm_cols

\* self.log_norm_cols = gamma_norm_cols + prcp_norm_cols   (line 222)
log_norm_cols == gamma_norm_cols \o prcp_norm_cols

\* self.data_target: the target after the unit conversion of _load_data
\* (data_sets.py 163-166)
data_target == unify_streamflow_unit(y_origin, FALSE)

\* cal_stat_all, lines 296-330: which statistic is stored under each name.
\* Later loops overwrite the entries of earlier ones.
TargetStat(var) ==
    IF InSeq(var, prcp_norm_cols) THEN <<var, "cal_stat_prcp_norm", "target">>
    ELSE IF InSeq(var, gamma_norm_cols) THEN <<var, "cal_stat_gamma", "target">>
    ELSE <<var, "cal_stat", "target">>
ForcingStat(var) ==
    IF InSeq(var, gamma_norm_cols) THEN <<var, "cal_stat_gamma", "forcing">>
    ELSE <<var, "cal_stat", "forcing">>
AttrStat(var) == <<var, "cal_stat", "attr">>
cal_stat_all ==
    [var \in SeqSet(target_cols) \cup SeqSet(relevant_cols)
             \cup SeqSet(constant_cols) |->
        IF InSeq(var, constant_cols) THEN AttrStat(var)
        ELSE IF InSeq(var, relevant_cols) THEN ForcingStat(var)
        ELSE TargetStat(var)]

\* get_data_obs, lines 348-371: out = xr.full_like(data, np.nan); only the
\* prcp_norm_cols variables are assigned before _trans_norm
get_data_obs(to_norm) ==
    LET out == [var \in DOMAIN data_target |->
                   IF InSeq(var, prcp_norm_cols)
                   THEN PrcpNorm(data_target[var], mean_prep, TRUE)
                   ELSE [b \in NormBasins |-> Missing]]
    IN  TransNorm(out, target_cols, stat_dict, log_norm_cols, to_norm)

\* self.data_forcing, self.data_attr: the arrays ScalerHub was given
data_forcing == x_origin
data_attr == c_origin

\* get_data_ts, lines 389-395
get_data_ts(to_norm) ==
    TransNorm(data_forcing, relevant_cols, stat_dict, log_norm_cols, to_norm)

\* get_data_const, lines 413-417: _trans_norm is given no log_norm_cols
get_data_const(to_norm) ==
    TransNorm(data_attr, constant_cols, stat_dict, <<>>, to_norm)

\* inverse_transform, lines 254-284
inverse_transform(target_values) ==
    LET denorm == TransNorm(target_values, target_cols, stat_dict,
                            log_norm_cols, FALSE)
        p == IF pbm_norm THEN target_values
             ELSE [var \in DOMAIN denorm |->
                      IF InSeq(var, prcp_norm_cols)
                      THEN PrcpNorm(denorm[var], mean_prep, FALSE)
                      ELSE denorm[var]]
    IN  unify_streamflow_unit(p, TRUE)

VarNames == {"streamflow", "et", "ssm", "prcp"}
\* configurations of data_params["target_cols"]
TargetColsChoices ==
    {<<"streamflow">>, <<"et">>, <<"ssm">>, <<"streamflow", "et">>,
     <<"ssm", "streamflow">>}
\* configurations of data_params["relevant_cols"]
RelevantColsChoices == {<<"prcp">>, <<"prcp", "et">>}
\* configurations of scaler_params["prcp_norm_cols"] / ["gamma_norm_cols"]
NormColsChoices == {<<>>} \cup {<<v>> : v \in VarNames}
RawValues == (0..MaxRaw) \cup {NaN}

NormIdle ==
    /\ target_cols = <<>>
    /\ relevant_cols = <<>>
    /\ constant_cols = <<>>
    /\ prcp_norm_cols = <<>>
    /\ gamma_norm_cols = <<>>
    /\ pbm_norm = FALSE
    /\ y_origin = <<>>
    /\ mean_prep = <<>>
    /\ stat_dict = <<>>
    /\ y_norm = <<>>
    /\ pred = <<>>
    /\ pcN = "idle"
    /\ x_origin = <<>>
    /\ c_origin = <<>>
    /\ x_norm = <<>>
    /\ c_norm = <<>>

\* A train-mode DapengScaler after __init__ (stat_dict_file None): the
\* statistics are those of cal_stat_all.
InitNormVars ==
    /\ target_cols \in TargetColsChoices
    /\ relevant_cols \in RelevantColsChoices
    /\ constant_cols = <<"area">>
    /\ prcp_norm_cols \in NormColsChoices
    /\ gamma_norm_cols \in NormColsChoices
    /\ pbm_norm \in BOOLEAN
    /\ \E raw \in [NormBasins -> RawValues] :
           /\ y_origin = [var \in SeqSet(target_cols) |->
                             [b \in NormBasins |-> Raw(raw[b])]]
           /\ x_origin = [var \in SeqSet(relevant_cols) |->
                             [b \in NormBasins |-> Raw(raw[b])]]
           /\ c_origin = [var \in SeqSet(constant_cols) |->
                             [b \in NormBasins |-> Raw(raw[b])]]
    /\ \E r \in 1..MaxRef : mean_prep = ("b1" :> r @@ "b2" :> r + 1)
    /\ stat_dict = cal_stat_all
    /\ y_norm = <<>>
    /\ pred = <<>>
    /\ pcN = "constructed"
    /\ x_norm = <<>>
    /\ c_norm = <<>>

\* x, y, c = scaler.load_data()   (lines 419-433)
LoadData ==
    /\ pcN = "constructed"
    /\ x_norm' = get_data_ts(TRUE)
    /\ y_norm' = get_data_obs(TRUE)
    /\ c_norm' = get_data_const(TRUE)
    /\ pcN' = "normalized"
    /\ UNCHANGED <<target_cols, relevant_cols, constant_cols, prcp_norm_cols,
                   gamma_norm_cols, pbm_norm, y_origin, mean_prep, stat_dict,
                   pred, x_origin, c_origin>>
    /\ UNCHANGED <<lookupVars, samplerVars, persistVars, fillVars>>

\* target_scaler.inverse_transform(y_norm)
InverseTransform ==
    /\ pcN = "normalized"
    /\ pred' = inverse_transform(y_norm)
    /\ pcN' = "inverted"
    /\ UNCHANGED <<target_cols, relevant_cols, constant_cols, prcp_norm_cols,
                   gamma_norm_cols, pbm_norm, y_origin, mean_prep, stat_dict,
                   y_norm, x_origin, c_origin, x_norm, c_norm>>
    /\ UNCHANGED <<lookupVars, samplerVars, persistVars, fillVars>>

(***************************************************************************)
(* _fill_gaps_da(da, "mean"), data_sets.py 45-57.  A cell is the rational  *)
(* sum/count: a raw value v is v/1, the mean of k values their sum over k, *)
(* and NaN is 0/0, the mean of no value.                                   *)
(***************************************************************************)
\* da["variable"].values, in order
FillVars == <<"area", "slope">>
\* the basin coordinate
FillBasins == <<"b1", "b2", "b3">>
\* the positions along the other axes
FillPositions == {"p1", "p2"}

Num(v) == [sum |-> v, count |-> 1]
NaNCell == [sum |-> 0, count |-> 0]
IsNaN(c) == c.count = 0

\* mean over the cells of a sequence with skipna=False: NaN if any is NaN
RECURSIVE MeanNoSkip(_)
MeanNoSkip(cells) ==
    IF cells = <<>> THEN NaNCell
    ELSE IF IsNaN(Head(cells)) THEN NaNCell
    ELSE IF Len(cells) = 1 THEN Head(cells)
    ELSE LET m == MeanNoSkip(Tail(cells))
         IN  IF IsNaN(m) THEN NaNCell
             ELSE [sum |-> Head(cells).sum + m.sum, count |-> 1 + m.count]

\* mean over the cells of a sequence, NaN cells skipped (the default of
\* DataArray.mean for float data)
RECURSIVE Mean(_)
Mean(cells) ==
    IF cells = <<>> THEN NaNCell
    ELSE LET m == Mean(Tail(cells))
         IN  IF IsNaN(Head(cells)) THEN m
             ELSE [sum |-> Head(cells).sum + m.sum, count |-> 1 + m.count]

\* var_data.mean(dim="basin"): one mean per position
MeanOverBasins(var_data) ==
    [p \in FillPositions |->
        Mean([k \in 1..Len(FillBasins) |-> var_data[FillBasins[k]][p]])]

\* var_data.fillna(mean_val): mean_val is broadcast along basin
FillNa(var_data, mean_val) ==
    [b \in DOMAIN var_data |->
        [p \in FillPositions |->
            IF IsNaN(var_data[b][p]) THEN mean_val[p] ELSE var_data[b][p]]]

\* the loop over da["variable"].values from variable k on
RECURSIVE FillGapsMean(_, _)
FillGapsMean(arr, k) ==
    IF k > Len(FillVars) THEN arr
    ELSE LET var == FillVars[k]
             var_data == arr[var]
             mean_val == MeanOverBasins(var_data)
             filled_data == FillNa(var_data, mean_val)
         IN  FillGapsMean([arr EXCEPT ![var] = filled_data], k + 1)

\* the value of the cell of variable vi, basin bi, position p when present
FillRaw(vi, bi, p, v0) == v0 + vi + bi * (IF p = "p1" THEN 1 ELSE 2)

FillIdle ==
    /\ da_in = <<>>
    /\ da = <<>>
    /\ pcF = "idle"

\* an array with any set of its cells missing
InitFillVars ==
    /\ \E v0 \in 0..MaxFillBase :
       \E missing \in SUBSET ({FillVars[k] : k \in DOMAIN FillVars}
                                \X {FillBasins[k] : k \in DOMAIN FillBasins}
                                \X FillPositions) :
           da_in = [var \in {FillVars[k] : k \in DOMAIN FillVars} |->
                      [b \in {FillBasins[k] : k \in DOMAIN FillBasins} |->
                         [p \in FillPositions |->
                            IF <<var, b, p>> \in missing THEN NaNCell
                            ELSE LET vi == CHOOSE k \in DOMAIN FillVars :
                                               FillVars[k] = var
                                     bi == CHOOSE k \in DOMAIN FillBasins :
                                               FillBasins[k] = b
                                 IN  Num(FillRaw(vi, bi, p, v0))]]]
    /\ da = da_in
    /\ pcF = "call"

\* _fill_gaps_da(da, fill_nan="mean")
FillGapsDaMean ==
    /\ pcF = "call"
    /\ da' = FillGapsMean(da, 1)
    /\ pcF' = "filled"
    /\ UNCHANGED da_in
    /\ UNCHANGED <<lookupVars, samplerVars, persistVars, normVars>>

(***************************************************************************)
(* Specifications                                                          *)
(***************************************************************************)
InitLookup ==
    InitLookupVars /\ SamplerIdle /\ PersistIdle /\ NormIdle /\ FillIdle
NextLookup == CreateLookupTable \/ GetItem
SpecLookup == InitLookup /\ [][NextLookup]_vars

InitSampler ==
    /\ InitSamplerVars
    /\ data_source_len = MaxLen
    /\ LookupIdle /\ PersistIdle /\ NormIdle /\ FillIdle
NextSampler == SamplerShrink \/ SamplerFinish
\* __init__ is straight-line code run by one thread: a step that can be
\* taken is taken.
SpecSampler == InitSampler /\ [][NextSampler]_vars /\ WF_vars(NextSampler)

\* KuaiSampler.__init__ and then one epoch of iter(sampler)
InitEpoch ==
    /\ InitSamplerVars
    /\ batch_size_arg <= MaxEpochBatch
    /\ LookupIdle /\ PersistIdle /\ NormIdle /\ FillIdle
NextEpoch ==
    \/ SamplerShrink
    \/ SamplerFinish
    \/ \E i \in 0..(MaxLen - 1) : SamplerDraw(i)
SpecEpoch == InitEpoch /\ [][NextEpoch]_vars

InitPersist ==
    PersistIdle /\ LookupIdle /\ SamplerIdle /\ NormIdle /\ FillIdle
NextPersist == ConstructAny
SpecPersist == InitPersist /\ [][NextPersist]_vars

InitNorm ==
    InitNormVars /\ LookupIdle /\ SamplerIdle /\ PersistIdle /\ FillIdle
NextNorm == LoadData \/ InverseTransform
SpecNorm == InitNorm /\ [][NextNorm]_vars

InitFill ==
    InitFillVars /\ LookupIdle /\ SamplerIdle /\ PersistIdle /\ NormIdle
NextFill == FillGapsDaMean
SpecFill == InitFill /\ [][NextFill]_vars

Init ==
    \/ InitLookup
    \/ InitSampler
    \/ InitEpoch
    \/ InitPersist
    \/ InitNorm
    \/ InitFill
Next ==
    \/ CreateLookupTable
    \/ GetItem
    \/ SamplerShrink
    \/ SamplerFinish
    \/ \E i \in 0..(MaxLen - 1) : SamplerDraw(i)
    \/ ConstructAny
    \/ LoadData
    \/ InverseTransform
    \/ FillGapsDaMean
Spec == Init /\ [][Next]_vars

(***************************************************************************)
(* Properties of the lookup table (SpecLookup)                             *)
(***************************************************************************)
\* time index of an entry's date on the axis
TimeIndex(entry) == entry[2] - EpochDay
\* position of a unit in the given unit order
UnitPos(basin) == CHOOSE k \in 1..Len(sites_id) : sites_id[k] = basin
EntriesOf(basin) == {i \in DOMAIN lookup_table : lookup_table[i][1] = basin}
PerUnitCount == Max(0, time_length - rho - warmup_length + 1)

\* C1: after _create_lookup_table every unit contributes exactly
\* max(0, nt - rho - w + 1) entries, so the table holds
\* ngrid * (nt - rho - w + 1) entries when that is positive and none (no
\* error) when rho > nt - w.
C1_LookupTableSize ==
    pcL = "built" =>
        /\ \A k \in 1..Len(sites_id) :
               Cardinality(EntriesOf(sites_id[k])) = PerUnitCount
        /\ num_samples = Len(sites_id) * PerUnitCount
        /\ Cardinality(DOMAIN lookup_table) = num_samples
        /\ (rho > time_length - warmup_length => num_samples = 0)

C1_Witness ==
    /\ pcL = "built"
    /\ Len(sites_id) = 2
    /\ warmup_length >= 1
    /\ rho >= 2
    /\ time_length - rho - warmup_length + 1 >= 2
    /\ num_samples = 2 * (time_length - rho - warmup_length + 1)

\* C2: the table's keys are exactly 0..N-1 and the entries are unit-major,
\* time-minor: for ids i < j either unit(i) comes before unit(j) in the given
\* unit order, or the units are equal and the time index of i is smaller;
\* id 0 is (unit[0], the timestamp at index warmup_length).
C2_UnitMajorTimeMinor ==
    pcL = "built" =>
        /\ DOMAIN lookup_table = 0..(num_samples - 1)
        /\ \A i, j \in DOMAIN lookup_table :
               i < j =>
                   \/ UnitPos(lookup_table[i][1]) < UnitPos(lookup_table[j][1])
                   \/ /\ lookup_table[i][1] = lookup_table[j][1]
                      /\ TimeIndex(lookup_table[i]) < TimeIndex(lookup_table[j])
        /\ (num_samples > 0 =>
               lookup_table[0] = <<sites_id[1], dates(warmup_length)>>)

C2_Witness ==
    /\ pcL = "built"
    /\ Len(sites_id) = 2
    /\ warmup_length >= 1
    /\ num_samples >= 4
    /\ lookup_table[0][1] = sites_id[1]
    /\ lookup_table[num_samples - 1][1] = sites_id[2]

\* C3: for rho >= 1 and warmup_length >= 0, every entry (unit, start) has its
\* window of time indices start - warmup_length .. start + rho - 1 inside the
\* time axis 0 .. nt-1.
C3_WindowInsideAxis ==
    (pcL = "built" /\ rho >= 1 /\ warmup_length >= 0) =>
        \A i \in DOMAIN lookup_table :
            /\ TimeIndex(lookup_table[i]) - warmup_length >= 0
            /\ TimeIndex(lookup_table[i]) + rho - 1 <= time_length - 1

C3_Witness ==
    /\ pcL = "built"
    /\ warmup_length >= 1
    /\ rho >= 2
    /\ \E i \in DOMAIN lookup_table :
           TimeIndex(lookup_table[i]) - warmup_length = 0
    /\ \E i \in DOMAIN lookup_table :
           TimeIndex(lookup_table[i]) + rho - 1 = time_length - 1

(***************************************************************************)
(* Properties of KuaiSampler.__init__ (SpecSampler)                        *)
(***************************************************************************)
SamplerReturned == pcS \notin {"idle", "loop"}

\* C4 as stated: for positive ngrid, nt, rho, b, w with rho <= nt, the batch
\* size after the shrink step (the loop, then the floor at 1) satisfies
\* b >= 1 and b*rho < ngrid*nt.
C4_ShrunkBatchValid ==
    (SamplerReturned /\ s_rho <= s_nt /\ s_warmup >= 1) =>
        /\ batch_size >= 1
        /\ batch_size * s_rho < s_ngrid * s_nt

\* C4 as amended: for positive ngrid, nt, rho, b, w with rho <= nt, the batch
\* size after the shrink step satisfies b >= 1, and b*rho < ngrid*nt unless
\* ngrid = 1 and rho = nt, where no batch size can and the floor leaves
\* b = 1 with b*rho = ngrid*nt.
C4_ShrunkBatchValidUnlessOneWindow ==
    (SamplerReturned /\ s_rho <= s_nt /\ s_warmup >= 1) =>
        /\ batch_size >= 1
        /\ \/ batch_size * s_rho < s_ngrid * s_nt
           \/ s_ngrid = 1 /\ s_rho = s_nt /\ batch_size = 1
        /\ (s_ngrid = 1 /\ s_rho = s_nt) =>
               batch_size * s_rho = s_ngrid * s_nt

\* the loop has shrunk the batch size it was given twice, from 100 or more
\* down to 1, which satisfies the inequality
C4_Witness ==
    /\ SamplerReturned
    /\ s_rho <= s_nt
    /\ s_rho >= 2
    /\ s_warmup >= 1
    /\ batch_size_arg >= 100
    /\ batch_size = 1
    /\ batch_size * s_rho < s_ngrid * s_nt

\* C5: for positive ngrid, nt, rho, b, w with rho <= nt, n_iter is well
\* defined and >= 1: 0 < b*rho < ngrid*(nt - w) holds for the shrunk b and
\* the assert n_iter_ep >= 1 never fails.
C5_NIterWellDefined ==
    (SamplerReturned /\ s_rho <= s_nt /\ s_warmup >= 1) =>
        /\ pcS = "done"
        /\ 0 < batch_size * s_rho
        /\ batch_size * s_rho < s_ngrid * (s_nt - s_warmup)

\* C6: the shrink loop terminates for every positive ngrid, nt, rho and every
\* starting batch size b >= 1.
C6_ShrinkLoopTerminates == <>(pcS # "loop")

\* the loop has shrunk the batch size to 0 (rho alone exceeds ngrid*nt), has
\* been left, and the floor has acted
C6_Witness ==
    /\ SamplerReturned
    /\ s_rho > s_ngrid * s_nt
    /\ batch_size = 1

(***************************************************************************)
(* Properties of the persisted statistics (SpecPersist)                    *)
(***************************************************************************)
IsWrite(e) == e[1] \in {"dump", "copy"}

\* C7: at valid/test time statistics are never computed from the data being
\* loaded: a construction with loader_type valid or test either loads a
\* persisted record / scaler that was already in the run directory (or was
\* copied from stat_dict_file) or fails; cal_stat_all / fit_transform run
\* only when loader_type is train and stat_dict_file is None.
C7_NoFitAtValidTest ==
    /\ \A e \in fits : e[2] = "train" /\ e[3] = "None"
    /\ last_build.loader_type \in {"valid", "test"} =>
           \/ last_build.res # "ok"
           \/ /\ last_build.stat_from = "loaded"
              /\ last_build.existed \/ last_build.stat_dict_file = "ext_file"

\* a valid-mode construction that found the record a train-mode construction
\* had written, and loaded it
C7_Witness ==
    /\ n_built = 2
    /\ last_build.loader_type = "valid"
    /\ last_build.stat_dict_file = "None"
    /\ last_build.res = "ok"
    /\ last_build.stat_from = "loaded"
    /\ last_build.existed
    /\ fits # {}

\* C8: over any sequence of constructions on one run directory each
\* persisted file is written exactly once, by a train-time construction,
\* before any construction reads it, and never again: every write of a file
\* is the first access to it and is made with loader_type train.
C8_WrittenOnceAtTrainTime ==
    \A f \in RunDirFiles :
        \A i \in 1..Len(io_hist[f]) :
            IsWrite(io_hist[f][i]) => i = 1 /\ io_hist[f][i][2] = "train"

(***************************************************************************)
(* Properties of the target normalization (SpecNorm)                       *)
(***************************************************************************)
HasOp(v, tag) == \E i \in 1..Len(v.ops) : v.ops[i][1] = tag
Normalized == pcN \in {"normalized", "inverted"}
Then(v, more) == [v EXCEPT !.ops = @ \o more]

\* C9: with pbm_norm false, for every target variable (plain, gamma or
\* ratio-to-reference) inverse_transform applied to the output of
\* get_data_obs recovers the original non-missing target values; in
\* particular the normalized value of a target variable that is not in
\* prcp_norm_cols is derived from its raw values and is not the missing
\* marker.
C9_RoundTripEveryPolicy ==
    /\ (pcN = "inverted" /\ ~pbm_norm) =>
           \A var \in SeqSet(target_cols), b \in NormBasins :
               y_origin[var][b] # Missing => pred[var][b] = y_origin[var][b]
    /\ (Normalized /\ ~pbm_norm) =>
           \A var \in SeqSet(target_cols), b \in NormBasins :
               (~InSeq(var, prcp_norm_cols) /\ y_origin[var][b] # Missing)
                   => y_norm[var][b] # Missing

\* C10 as stated: a ratio-to-reference target variable is normalized by the
\* division by the per-unit reference followed by a plain z-score, and the
\* log(sqrt(x)+0.1) compression is applied only to gamma_norm_cols
\* variables.
C10_RatioIsPlainZScore ==
    Normalized =>
        \A var \in SeqSet(target_cols), b \in NormBasins :
            data_target[var][b] # Missing =>
                /\ InSeq(var, prcp_norm_cols) =>
                       y_norm[var][b] =
                           Then(data_target[var][b],
                                << <<"div", mean_prep[b]>>,
                                   <<"zscore", stat_dict[var]>> >>)
                /\ HasOp(y_norm[var][b], "log_sqrt") =>
                       InSeq(var, gamma_norm_cols)

\* C10 as amended: a ratio-to-reference target variable is normalized by
\* the division by the per-unit reference, then the log(sqrt(x)+0.1)
\* compression, then a plain z-score; the compression is applied to the
\* prcp_norm_cols variables as well as the gamma_norm_cols ones and to no
\* other variable; the inverse applies the same steps reversed, giving the
\* original value back.
C10_RatioIsLogCompressed ==
    /\ Normalized =>
           \A var \in SeqSet(target_cols), b \in NormBasins :
               data_target[var][b] # Missing =>
                   /\ InSeq(var, prcp_norm_cols) =>
                          y_norm[var][b] =
                              Then(data_target[var][b],
                                   << <<"div", mean_prep[b]>>,
                                      <<"log_sqrt">>,
                                      <<"zscore", stat_dict[var]>> >>)
                   /\ HasOp(y_norm[var][b], "log_sqrt") =>
                          \/ InSeq(var, gamma_norm_cols)
                          \/ InSeq(var, prcp_norm_cols)
    /\ (pcN = "inverted" /\ ~pbm_norm) =>
           \A var \in SeqSet(target_cols), b \in NormBasins :
               (InSeq(var, prcp_norm_cols) /\ y_origin[var][b] # Missing)
                   => pred[var][b] = y_origin[var][b]

\* a ratio variable that is not a gamma variable, normalized with the
\* compression and recovered by the inverse, next to a unit with another
\* reference
C10_Witness ==
    /\ pcN = "inverted"
    /\ ~pbm_norm
    /\ \E var \in SeqSet(target_cols) :
           /\ InSeq(var, prcp_norm_cols)
           /\ ~InSeq(var, gamma_norm_cols)
           /\ y_origin[var]["b1"].base > 0
           /\ y_origin[var]["b2"].base > 0
           /\ HasOp(y_norm[var]["b1"], "log_sqrt")
           /\ y_norm[var]["b1"] # y_norm[var]["b2"]
           /\ pred[var] = y_origin[var]


(***************************************************************************)
(* Properties of __len__ and __getitem__ (SpecLookup)                      *)
(***************************************************************************)
Loaded == pcL \in {"built", "got"}

\* C11: the dataset length is the lookup-table size in train mode and the
\* number of spatial units in inference mode, for every dataset class
\* (BaseDataset, BasinSingleFlowDataset, DplDataset).
C11_LenByMode ==
    Loaded =>
        DatasetLen = IF train_mode THEN Cardinality(DOMAIN lookup_table)
                     ELSE Len(sites_id)

\* C12: in train mode, for the lookup id i with entry (unit, t),
\* BaseDataset.__getitem__ returns an input window of exactly
\* warmup_length + rho rows, the timesteps t - warmup_length .. t + rho - 1
\* of that unit's normalized forcing in order, each row followed by the
\* unit's static attributes when there are any, and a target window of
\* exactly rho rows, the timesteps t .. t + rho - 1 of that unit's target:
\* the timesteps of the last rho rows of the input window.
C12_TrainWindows ==
    (pcL = "got" /\ train_mode /\ ds_class = "BaseDataset") =>
        LET unit == lookup_table[item_arg][1]
            t == TimeIndex(lookup_table[item_arg])
            attrs == IF has_c THEN << <<"c", unit>> >> ELSE <<>>
        IN  /\ item_out.res = "ok"
            /\ Len(item_out.x) = warmup_length + rho
            /\ \A k \in 1..(warmup_length + rho) :
                   /\ t - warmup_length + k - 1 \in 0..(time_length - 1)
                   /\ item_out.x[k] =
                          << <<"x", unit, dates(t - warmup_length + k - 1)>> >>
                              \o attrs
            /\ Len(item_out.y) = rho
            /\ \A k \in 1..rho :
                   /\ item_out.y[k] = << <<"y", unit, dates(t + k - 1)>> >>
                   /\ item_out.y[k][1][3] = item_out.x[warmup_length + k][1][3]

\* a window with warmup rows, attributes on every row, that ends on the last
\* timestamp of the axis, taken for the second unit
C12_Witness ==
    /\ pcL = "got"
    /\ train_mode
    /\ ds_class = "BaseDataset"
    /\ has_c
    /\ warmup_length >= 1
    /\ rho >= 2
    /\ item_out.res = "ok"
    /\ Len(sites_id) = 2
    /\ lookup_table[item_arg][1] = sites_id[2]
    /\ Len(item_out.x) = warmup_length + rho
    /\ Len(item_out.x[1]) = 2
    /\ item_out.y[rho][1][3] = dates(time_length - 1)

\* C16: length and indexed access agree: for every dataset class in every
\* loader mode every index i with 0 <= i < len(dataset) is a valid argument
\* of __getitem__: a key of the lookup table in train mode, a position in
\* the unit list in inference mode.
C16_EveryIndexValid ==
    /\ Loaded =>
           \A i \in 0..(DatasetLen - 1) :
               IF train_mode THEN i \in DOMAIN lookup_table
               ELSE i + 1 \in DOMAIN sites_id
    /\ pcL = "got" => item_out.res \notin {"IndexError", "KeyError"}

(***************************************************************************)
(* Properties of an epoch of KuaiSampler (SpecEpoch)                       *)
(***************************************************************************)
\* C13: an epoch of KuaiSampler consists of n_iter * b draws made uniformly
\* at random with replacement from the index range of the dataset, not a
\* permutation: whatever has been drawn so far, every index of the range
\* can be the next draw, so the same index may be drawn more than once even
\* when n_iter * b does not exceed the dataset length.
C13_DrawsWithReplacement ==
    pcS = "done" =>
        /\ s_num_samples =
               NIterEp(batch_size, s_rho, s_ngrid, s_nt, s_warmup) * batch_size
        /\ Len(drawn) <= s_num_samples
        /\ (Len(drawn) < s_num_samples /\ Len(drawn) < MaxDraws) =>
               \A i \in 0..(data_source_len - 1) : ENABLED SamplerDraw(i)

(***************************************************************************)
(* Properties of failing constructions (SpecPersist)                       *)
(***************************************************************************)
KnownScalers == SCALER_DICT \cup {"DapengScaler"}

\* C14: a construction with an invalid loader mode or an unknown scaler name
\* fails with a fatal error (ValueError, NotImplementedError), yields no
\* dataset, and fails before any statistics record or fitted scaler file is
\* created, copied over or modified: the run directory, the accesses to its
\* files and the fits made are as they were before the call.
C14_InvalidArgsFailBeforeFiles ==
    [][(/\ n_built' = n_built + 1
        /\ \/ last_build'.loader_type \notin LoaderTypes
           \/ last_build'.scaler \notin KnownScalers)
       => /\ last_build'.res \in {"ValueError", "NotImplementedError"}
          /\ last_build'.loader_type \notin LoaderTypes
                 => last_build'.res = "ValueError"
          /\ run_dir' = run_dir
          /\ io_hist' = io_hist
          /\ fits' = fits]_vars

\* after a train-time construction has written the record, a construction
\* with an invalid loader mode and a stat_dict_file to copy in has failed
\* and left the record as the first construction wrote it
C14_Witness ==
    /\ n_built = 2
    /\ last_build.loader_type = "predict"
    /\ last_build.scaler = "DapengScaler"
    /\ last_build.stat_dict_file = "ext_file"
    /\ last_build.res = "ValueError"
    /\ run_dir[stat_file] = "train_stats"
    /\ io_hist[stat_file] = <<Event("dump", "train")>>

(***************************************************************************)
(* Properties of the mean gap filling (SpecFill)                           *)
(***************************************************************************)
\* the units whose cell of variable var at position p was not missing
Present(var, p) == {b \in DOMAIN da_in[var] : ~IsNaN(da_in[var][b][p])}

RECURSIVE SumOf(_, _, _)
SumOf(var, p, bs) ==
    IF bs = {} THEN 0
    ELSE LET b == CHOOSE x \in bs : TRUE
         IN  da_in[var][b][p].sum + SumOf(var, p, bs \ {b})

\* C15: after _fill_gaps_da(da, 'mean'), for every variable and position at
\* which at least one unit was non-missing no unit is missing: each
\* formerly missing entry is the mean over the non-missing units of the
\* variable at that position, and the non-missing entries are unchanged.
C15_MeanFillsEveryGap ==
    pcF = "filled" =>
        \A var \in DOMAIN da_in, p \in FillPositions :
            Present(var, p) # {} =>
                \A b \in DOMAIN da_in[var] :
                    /\ ~IsNaN(da[var][b][p])
                    /\ b \in Present(var, p) =>
                           da[var][b][p] = da_in[var][b][p]
                    /\ b \notin Present(var, p) =>
                           /\ da[var][b][p].count =
                                  Cardinality(Present(var, p))
                           /\ da[var][b][p].sum =
                                  SumOf(var, p, Present(var, p))

\* a gap filled with the mean of the two other units, next to a position of
\* the same variable with no gap and a variable with a different mean
C15_Witness ==
    /\ pcF = "filled"
    /\ Present("area", "p1") = {"b1", "b3"}
    /\ Present("area", "p2") = {"b1", "b2", "b3"}
    /\ Present("slope", "p1") = {"b2"}
    /\ da["area"]["b2"]["p1"].count = 2
    /\ da["area"]["b2"]["p1"].sum =
           da_in["area"]["b1"]["p1"].sum + da_in["area"]["b3"]["p1"].sum
    /\ da["slope"]["b1"]["p1"] = da_in["slope"]["b2"]["p1"]
    /\ da["slope"]["b1"]["p1"] # da["area"]["b2"]["p1"]

(***************************************************************************)
(* Properties of statistics against transforms (SpecNorm)                  *)
(***************************************************************************)
\* What the function that computed a statistic does to the data first:
\* cal_stat nothing, cal_stat_gamma log(sqrt(x) + 0.1), cal_stat_prcp_norm
\* the division by the unit's reference and then what cal_stat_gamma does.
StatPreTransform(stat, b) ==
    CASE stat[2] = "cal_stat" -> <<>>
      [] stat[2] = "cal_stat_gamma" -> << <<"log_sqrt">> >>
      [] stat[2] = "cal_stat_prcp_norm" ->
             << <<"div", mean_prep[b]>>, <<"log_sqrt">> >>

\* a normalized element is the data element taken through the pre-transform
\* of the statistic stored under the variable's name and z-scored with it
AgreesWithStat(normed, data, var, b) ==
    normed[var][b] =
        Then(data[var][b],
             StatPreTransform(stat_dict[var], b)
                 \o << <<"zscore", stat_dict[var]>> >>)

\* C17: statistics and transform agree per variable: for every variable of
\* the target, forcing and attribute groups the pre-transform under which
\* cal_stat_all computed the statistic stored under the variable's name
\* (raw, log-sqrt or ratio-to-reference) is the pre-transform get_data_obs /
\* get_data_ts / get_data_const apply before z-scoring with that statistic,
\* also for a forcing variable listed in prcp_norm_cols and for a name that
\* is in both target_cols and relevant_cols.
C17_StatMatchesTransform ==
    Normalized =>
        \A b \in NormBasins :
            /\ \A var \in SeqSet(target_cols) :
                   y_norm[var][b] # Missing =>
                       AgreesWithStat(y_norm, data_target, var, b)
            /\ \A var \in SeqSet(relevant_cols) :
                   x_norm[var][b] # Missing =>
                       AgreesWithStat(x_norm, data_forcing, var, b)
            /\ \A var \in SeqSet(constant_cols) :
                   c_norm[var][b] # Missing =>
                       AgreesWithStat(c_norm, data_attr, var, b)
=============================================================================
